---- MODULE Spec2Model ----
(***************************************************************************)
(* A model of met.py: MetadataCleaner (capability probe, has_metadata,     *)
(* clean_metadata, scan_folder, run_continuous, run_watchdog) and          *)
(* MetadataEventHandler (on_created, on_modified).                         *)
(*                                                                         *)
(* Thread 0 is the main thread (scan_folder); threads 1..NumHandlers are   *)
(* the watch layer's event-delivery threads running on_created and         *)
(* on_modified.  Each action is one step of a thread between two points    *)
(* where another thread can be scheduled.                                  *)
(***************************************************************************)
EXTENDS Integers, Sequences, FiniteSets, TLC

\* ------------------------------------------------------------------ bounds
NumHandlers == 2
MaxScans == 2
MaxTextLen == 503

\* ------------------------------------------------------------------- paths
\* A path is a sequence of tokens; the tokens of a real path string,
\* concatenated, give the string.
Main == 0
Handlers == 1..NumHandlers
Threads == {Main} \cup Handlers

folder_path == <<"/", "w">>
Join(dir, name) == dir \o <<"/">> \o name
temp_folder == Join(folder_path, <<"_temp_metadata_cleaner">>)

\* `needle in hay` of two Python strings
InStr(needle, hay) ==
    \E i \in 0..(Len(hay) - Len(needle)) :
        SubSeq(hay, i + 1, i + Len(needle)) = needle

ExtTokens == {".JPG", ".jpg", ".pdf", ".docx", ".txt", ".png"}
Lower(tok) == IF tok = ".JPG" THEN ".jpg" ELSE tok
\* os.path.splitext(path)[1].lower()
Extension(path) ==
    IF Len(path) > 0 /\ path[Len(path)] \in ExtTokens
    THEN Lower(path[Len(path)]) ELSE ""

RECURSIVE LastSlash(_, _)
LastSlash(path, i) ==
    IF i = 0 THEN 0 ELSE IF path[i] = "/" THEN i ELSE LastSlash(path, i - 1)
\* os.path.basename(path)
Basename(path) == SubSeq(path, LastSlash(path, Len(path)) + 1, Len(path))
\* temp_file = os.path.join(self.temp_folder, filename)
TempFile(path) == Join(temp_folder, Basename(path))

\* The files of the watched tree
PathA   == Join(folder_path, <<"a", ".JPG">>)
PathB   == Join(folder_path, <<"b", ".pdf">>)
PathC   == Join(folder_path, <<"c", ".docx">>)
PathD   == Join(folder_path, <<"d", ".txt">>)
DirSub  == Join(folder_path, <<"sub">>)
PathSA  == Join(DirSub, <<"a", ".JPG">>)
\* a directory of the user whose name begins like the staging directory's
DirOld  == folder_path \o <<"/", "_temp_metadata_cleaner", "_old">>
PathE   == Join(DirOld, <<"e", ".txt">>)
UserPaths == {PathA, PathB, PathC, PathD, PathSA, PathE}
StagingPaths == {TempFile(p) : p \in UserPaths}
\* paths that lie under the staging subdirectory (by prefix, as a file system does)
UnderStaging(path) ==
    /\ Len(path) > Len(temp_folder) + 1
    /\ SubSeq(path, 1, Len(temp_folder) + 1) = temp_folder \o <<"/">>

\* os.walk(self.folder_path): the (root, file) pairs in the order of the walk
WalkOrder ==
    << [root |-> folder_path, file |-> <<"a", ".JPG">>],
       [root |-> folder_path, file |-> <<"b", ".pdf">>],
       [root |-> folder_path, file |-> <<"c", ".docx">>],
       [root |-> folder_path, file |-> <<"d", ".txt">>],
       [root |-> temp_folder, file |-> <<"a", ".JPG">>],
       [root |-> DirOld,      file |-> <<"e", ".txt">>],
       [root |-> DirSub,      file |-> <<"a", ".JPG">>] >>

\* ------------------------------------------------------------ file contents
\* of: whose bytes these are; tags: the embedded metadata fields;
\* ver: which writer produced the bytes.
EmbeddedTags == {"GPSPosition"}
NoFile == [of |-> <<>>, tags |-> {}, ver |-> "absent"]
Original(path) == [of |-> path, tags |-> EmbeddedTags, ver |-> "user"]
Exists(c) == c # NoFile

\* exiftool -all= -o temp_file file_path: a copy without the embedded fields
ExiftoolStripped(c) == [of |-> c.of, tags |-> {}, ver |-> "exiftool"]
\* qpdf --linearize --replace-input: the document rewritten in linearized
\* form; linearizing keeps the document information fields
QpdfLinearized(c) == [of |-> c.of, tags |-> c.tags, ver |-> "qpdf"]
\* the same, written although qpdf met warnings (exit status 3)
QpdfWithWarnings(c) == [of |-> c.of, tags |-> c.tags, ver |-> "qpdf-warnings"]
\* Image.new(mode, size) + putdata + save: the pixels only
PilReencoded(c) == [of |-> c.of, tags |-> {}, ver |-> "pil"]

\* --------------------------------------------------- extension allow-lists
ImageExts == {".jpg", ".jpeg", ".png", ".tiff", ".tif", ".webp"}
InspectDocExts == {".pdf", ".docx", ".doc", ".pptx", ".xlsx", ".xls"}
MediaExts == {".mp3", ".mp4", ".avi", ".mov", ".wav"}
relevant_extensions == {".jpg", ".jpeg", ".png", ".pdf", ".docx", ".doc",
                        ".pptx", ".xlsx", ".xls", ".mp3", ".mp4", ".avi"}

\* ----------------------------------------------- outcomes of external calls
\* subprocess.run of a version query: the binary runs and exits 0, runs and
\* exits nonzero, is not found (FileNotFoundError), or cannot be started for
\* another reason (PermissionError and the other OSErrors)
ProbeOutcomes == {"exit0", "nonzero", "notfound", "oserror"}
\* exiftool -json / Image.open: a result, a nonzero exit, or an exception
ReadOutcomes == {"ok", "nonzero", "exception"}
\* exiftool -all= -o
WriteOutcomes == {"ok", "nonzero", "exception"}
\* qpdf exit status: 0 done, 2 errors (nothing written), 3 warnings (file
\* written); or the call raises
QpdfOutcomes == {"exit0", "exit2", "exit3", "exception"}
PilOutcomes == {"ok", "error"}
MoveOutcomes == {"ok", "error"}

\* The fields exiftool -json reports for every file it can read
ExifToolBasicTags == {"SourceFile", "ExifToolVersion", "FileName",
                      "FileSize", "FileType", "MIMEType"}
ExcludedTags == {"FileSize", "FileName", "FileType", "MIMEType",
                 "ExifToolVersion"}

VARIABLES
    mode,                 \* args.mode: "schedule" or "watchdog"
    available_tools,      \* self.available_tools
    fs,                   \* the files of the tree and of the staging directory
    recently_processed,   \* MetadataEventHandler.recently_processed
    pc,                   \* where each thread is
    evt,                  \* the event a handler thread is (or was last) handling
    walk_idx,             \* scan_folder: how many entries of the walk were taken
    files_with_metadata,  \* scan_folder's counter
    scans,                \* scans started so far
    has_meta, metadata,   \* has_metadata's result, per thread
    ret,                  \* clean_metadata's return value, per thread
    sent,                 \* the messages a thread sent for its current file
    orig,                 \* scanning thread: the file's content when
                          \* clean_metadata was called
    tool_res,             \* scanning thread: how the external tools ended in
                          \* has_metadata and clean_metadata for its file
    temp_dir,             \* whether the staging directory is there
    inspected,            \* scan_folder: the paths has_metadata was called
                          \* for in this scan, and how many of the calls
                          \* returned True
    queue,                \* the watch layer: the changes of files it has
                          \* seen and not reported to a handler yet
    call                  \* one call of a function on drawn arguments

vars == << mode, available_tools, fs, recently_processed, pc, evt, walk_idx,
           files_with_metadata, scans, has_meta, metadata, ret, sent, orig,
           tool_res, temp_dir, inspected, queue, call >>

AllFiles == UserPaths \cup StagingPaths

\* ------------------------------------------------------- Capability Probe
\* _check_required_tools: one try block per tool
check_tool(outcome) == outcome # "notfound"
\* the whole probe: an exception that is neither FileNotFoundError nor
\* SubprocessError is not caught (lines 82 and 90) and leaves the function
\* before line 94
check_required_tools(outs) ==
    [raised |-> outs.exiftool = "oserror" \/ outs.qpdf = "oserror",
     tools  |-> [exiftool |-> check_tool(outs.exiftool),
                 qpdf     |-> check_tool(outs.qpdf)]]

\* ------------------------------------------------------ Metadata Inspector
\* a plausible slip: a failed call is reported like a missing tool
get_metadata_with_exiftool_ReportsError(path, outcome) ==
    IF ~available_tools.exiftool THEN {"error"}
    ELSE IF outcome = "ok" THEN ExifToolBasicTags \cup fs[path].tags
    ELSE {"error"}

\* lines 122-141: a nonzero exit (line 133) and every exception, the one of
\* json.loads included (line 139), give {}
get_metadata_with_exiftool(path, outcome) ==
    IF ~available_tools.exiftool THEN {"error"}
    ELSE IF outcome = "ok" THEN ExifToolBasicTags \cup fs[path].tags
    ELSE {}

\* a plausible slip: the test is made on what the tool reported
FilterBasic_TestsReport(reported) ==
    LET filtered_metadata == reported \ ExcludedTags
    IN  [has |-> reported # {}, meta |-> filtered_metadata]

\* lines 160-162: the basic fields are dropped, then bool(filtered_metadata)
FilterBasic(reported) ==
    LET filtered_metadata == reported \ ExcludedTags
    IN  [has |-> filtered_metadata # {}, meta |-> filtered_metadata]

has_metadata(path, outcome) ==
    LET extension == Extension(path) IN
    IF available_tools.exiftool
    THEN FilterBasic(get_metadata_with_exiftool(path, outcome))
    ELSE IF extension \in ImageExts
    THEN IF outcome = "ok"
         THEN [has |-> fs[path].tags # {}, meta |-> fs[path].tags]
         ELSE [has |-> FALSE, meta |-> {}]
    ELSE IF extension \in InspectDocExts
    THEN [has |-> TRUE, meta |-> {"warning"}]
    ELSE IF extension \in MediaExts
    THEN [has |-> TRUE, meta |-> {"warning"}]
    ELSE [has |-> FALSE, meta |-> {}]

\* ------------------------------------------------------------------- state
NoEvent == [type |-> "none", src_path |-> <<>>, is_directory |-> FALSE]
NoTools == [read |-> "none", exiftool |-> "none", qpdf |-> "none"]
NoCall == [fn |-> "none", arg |-> <<>>, res |-> <<>>, done |-> TRUE]
NoMeta == [has |-> FALSE, meta |-> {}]
NoneInspected == [paths |-> <<>>, returned_true |-> 0]
\* the watch layer with nothing to report; on: whether what it reports is
\* followed change by change
NoQueue == [on |-> FALSE, changes |-> {}]

\* os.walk lists the staging directory and the files that are there
Walk ==
    SelectSeq(WalkOrder,
              LAMBDA e : e.root = temp_folder \/ Exists(fs[Join(e.root, e.file)]))

\* the file a thread is working on: os.path.join(root, file) in scan_folder,
\* event.src_path in a handler
CurPath(t) ==
    IF t = Main
    THEN Join(Walk[walk_idx].root, Walk[walk_idx].file)
    ELSE evt[t].src_path

\* The object after __init__ (lines 48-72): the probe has run, the staging
\* directory is there; tree is what the watched folder holds
Constructed(tree) ==
    /\ \E outs \in [exiftool : ProbeOutcomes, qpdf : ProbeOutcomes] :
          /\ ~check_required_tools(outs).raised
          /\ available_tools = check_required_tools(outs).tools
    /\ fs = [p \in AllFiles |-> IF p \in tree THEN Original(p) ELSE NoFile]
    /\ recently_processed = {}
    /\ evt = [t \in Handlers |-> NoEvent]
    /\ walk_idx = 0
    /\ files_with_metadata = 0
    /\ scans = 1
    /\ has_meta = [t \in Threads |-> FALSE]
    /\ metadata = [t \in Threads |-> {}]
    /\ ret = [t \in Threads |-> FALSE]
    /\ sent = [t \in Threads |-> <<>>]
    /\ orig = NoFile
    /\ tool_res = NoTools
    /\ temp_dir = TRUE
    /\ inspected = NoneInspected

\* ... and the main thread about to run its first scan_folder
InitTree(tree) ==
    /\ Constructed(tree)
    /\ call = NoCall
    /\ queue = NoQueue
    /\ pc = [t \in Threads |-> IF t = Main THEN "sf_walk" ELSE "idle"]

\* a thread is done with a file: the locals of that file are gone
NoLocals(t) ==
    /\ has_meta' = [has_meta EXCEPT ![t] = FALSE]
    /\ metadata' = [metadata EXCEPT ![t] = {}]
    /\ ret' = [ret EXCEPT ![t] = FALSE]
    /\ sent' = [sent EXCEPT ![t] = <<>>]
    /\ orig' = IF t = Main THEN NoFile ELSE orig
    /\ tool_res' = IF t = Main THEN NoTools ELSE tool_res

\* has_metadata returned r for a file, exiftool -json having ended as o (if
\* it ran): on has_meta the detection message is sent (send_telegram_message)
\* and clean_metadata is called next
Inspected(t, r, o) ==
    /\ has_meta' = [has_meta EXCEPT ![t] = r.has]
    /\ metadata' = [metadata EXCEPT ![t] = r.meta]
    /\ sent' = [sent EXCEPT ![t] = IF r.has THEN <<"detected">> ELSE <<>>]
    /\ ret' = [ret EXCEPT ![t] = FALSE]
    /\ orig' = IF t = Main THEN NoFile ELSE orig
    /\ tool_res' = IF t = Main
                   THEN [NoTools EXCEPT !.read =
                             IF available_tools.exiftool THEN o ELSE "none"]
                   ELSE tool_res

\* -------------------------------------------------------------- scan_folder
\* One iteration of the walk: the staging test, has_metadata, the counter and
\* the detection message (lines 297-321)
SfNext ==
    /\ pc[Main] = "sf_walk"
    /\ walk_idx < Len(Walk)
    /\ walk_idx' = walk_idx + 1
    /\ LET e == Walk[walk_idx + 1] IN
       IF InStr(temp_folder, e.root)
       THEN /\ Inspected(Main, NoMeta, "none")
            /\ UNCHANGED << pc, files_with_metadata, inspected >>
       ELSE \E o \in ReadOutcomes :
              LET file_path == Join(e.root, e.file)
                  r == has_metadata(file_path, o)
              IN
              /\ Inspected(Main, r, o)
              /\ inspected' =
                     [paths |-> Append(inspected.paths, file_path),
                      returned_true |-> inspected.returned_true + (IF r.has THEN 1 ELSE 0)]
              /\ files_with_metadata' = files_with_metadata + (IF r.has THEN 1 ELSE 0)
              /\ pc' = [pc EXCEPT ![Main] = IF r.has THEN "clean" ELSE "sf_walk"]
    /\ UNCHANGED << mode, temp_dir, call, queue, available_tools, fs, recently_processed, evt, scans >>

\* The walk is over: scan_folder returns files_with_metadata to its caller
\* (lines 332-337), run_continuous or run_watchdog
SfReturn ==
    /\ pc[Main] = "sf_walk"
    /\ walk_idx = Len(Walk)
    /\ pc' = [pc EXCEPT ![Main] = IF mode = "schedule" THEN "rc_loop" ELSE "rw_loop"]
    /\ NoLocals(Main)
    /\ UNCHANGED << mode, temp_dir, call, inspected, queue, available_tools, fs, recently_processed, evt, walk_idx,
                    files_with_metadata, scans >>

\* run_continuous: schedule.run_pending() starts the next scan
RcRunPending ==
    /\ pc[Main] = "rc_loop"
    /\ scans < MaxScans
    /\ scans' = scans + 1
    /\ walk_idx' = 0
    /\ files_with_metadata' = 0
    /\ inspected' = NoneInspected
    /\ pc' = [pc EXCEPT ![Main] = "sf_walk"]
    /\ UNCHANGED << mode, temp_dir, call, queue, available_tools, fs, recently_processed, evt,
                    has_meta, metadata, ret, sent, orig, tool_res >>

\* ----------------------------------------------------------- clean_metadata
\* The values clean_metadata returns (a bool): True after the original was
\* replaced, False where no method exists for the type, False where a method
\* failed or no tool is there
CleanedResult == TRUE
UnsupportedResult == FALSE
FailedResult == FALSE

\* a plausible slip: a failed clean_metadata sends no outcome message
Return_SilentFailure(t, v) ==
    /\ ret' = [ret EXCEPT ![t] = v]
    /\ sent' = [sent EXCEPT ![t] = IF v THEN Append(@, "cleaned") ELSE @]
    /\ pc' = [pc EXCEPT ![t] = IF t = Main THEN "sf_walk" ELSE "cooldown"]

\* a plausible slip: a failed clean_metadata raises in its caller, which stops
Return_FailureAborts(t, v) ==
    /\ ret' = [ret EXCEPT ![t] = v]
    /\ sent' = [sent EXCEPT ![t] = Append(@, IF v THEN "cleaned" ELSE "failed")]
    /\ pc' = [pc EXCEPT ![t] = IF ~v THEN "aborted"
                               ELSE IF t = Main THEN "sf_walk" ELSE "cooldown"]

\* clean_metadata returns v; its caller sends the outcome message and goes
\* on: scan_folder with the walk, a handler with its finally block
Return(t, v) ==
    /\ ret' = [ret EXCEPT ![t] = v]
    /\ sent' = [sent EXCEPT ![t] = Append(@, IF v THEN "cleaned" ELSE "failed")]
    /\ pc' = [pc EXCEPT ![t] = IF t = Main THEN "sf_walk" ELSE "cooldown"]

\* clean_metadata is entered: the snapshot has_metadata returned is of no
\* further use; orig records the content of the file at this moment for the
\* call of the scanning thread
Enter(t) ==
    /\ metadata' = [metadata EXCEPT ![t] = {}]
    /\ orig' = IF t = Main /\ pc[t] = "clean" THEN fs[CurPath(t)] ELSE orig

\* tool_res records how the external tools ended in the call of the scanning
\* thread
Ran(t, tool, o) ==
    tool_res' = IF t = Main THEN [tool_res EXCEPT ![tool] = o] ELSE tool_res

\* A tool or shutil.move has written path p; the watch layer (the Observer
\* run_watchdog starts, lines 362-366) sees the change
Written(p) ==
    queue' = IF queue.on
             THEN [queue EXCEPT !.changes = @ \cup {[src_path |-> p, by |-> "redactor"]}]
             ELSE queue

\* a plausible slip: a failure of exiftool ends clean_metadata at once
CmExiftool_NoFallthrough(t) ==
    /\ pc[t] = "clean"
    /\ available_tools.exiftool
    /\ Enter(t)
    /\ \E o \in WriteOutcomes :
         /\ o = "ok" => ~Exists(fs[TempFile(CurPath(t))])
         /\ Ran(t, "exiftool", o)
         /\ IF o = "ok"
            THEN /\ fs' = [fs EXCEPT ![TempFile(CurPath(t))] =
                                         ExiftoolStripped(fs[CurPath(t)])]
                 /\ Written(TempFile(CurPath(t)))
                 /\ pc' = [pc EXCEPT ![t] = "move_exiftool"]
                 /\ UNCHANGED << ret, sent >>
            ELSE /\ Return(t, FailedResult)
                 /\ UNCHANGED << fs, queue >>
    /\ UNCHANGED << mode, temp_dir, call, inspected, available_tools, recently_processed, evt, walk_idx,
                    files_with_metadata, scans, has_meta >>

\* lines 215-234: exiftool -all= -o temp_file file_path.  exiftool does not
\* overwrite an existing output file.
CmExiftool(t) ==
    /\ pc[t] = "clean"
    /\ available_tools.exiftool
    /\ Enter(t)
    /\ \E o \in WriteOutcomes :
         /\ o = "ok" => ~Exists(fs[TempFile(CurPath(t))])
         /\ Ran(t, "exiftool", o)
         /\ IF o = "ok"
            THEN /\ fs' = [fs EXCEPT ![TempFile(CurPath(t))] =
                                         ExiftoolStripped(fs[CurPath(t)])]
                 /\ Written(TempFile(CurPath(t)))
                 /\ pc' = [pc EXCEPT ![t] = "move_exiftool"]
            ELSE /\ pc' = [pc EXCEPT ![t] = "fallback"]
                 /\ UNCHANGED << fs, queue >>
    /\ UNCHANGED << mode, temp_dir, call, inspected, available_tools, recently_processed, evt, walk_idx,
                    files_with_metadata, scans, has_meta, ret, sent >>

\* shutil.move(temp_file, file_path): os.rename within one file system
Move(src, dst) == [fs EXCEPT ![dst] = fs[src], ![src] = NoFile]

\* lines 230-234: the move after exiftool succeeded; an exception is caught
\* at line 232 and the per-extension methods follow
CmMoveExiftool(t) ==
    /\ pc[t] = "move_exiftool"
    /\ \E o \in MoveOutcomes :
         /\ o = "ok" => Exists(fs[TempFile(CurPath(t))])
         /\ IF o = "ok"
            THEN /\ fs' = Move(TempFile(CurPath(t)), CurPath(t))
                 /\ Written(CurPath(t))
                 /\ Return(t, CleanedResult)
            ELSE /\ pc' = [pc EXCEPT ![t] = "fallback"]
                 /\ UNCHANGED << fs, ret, sent, queue >>
    /\ UNCHANGED << mode, temp_dir, call, inspected, available_tools, recently_processed, evt, walk_idx,
                    files_with_metadata, scans, has_meta, metadata, orig,
                    tool_res >>

\* a plausible slip: with no qpdf there is nothing to do, which counts as done
CmPdf_NothingToDo(t) ==
    IF available_tools.qpdf
    THEN \E o \in QpdfOutcomes :
           /\ Ran(t, "qpdf", o)
           /\ fs' = IF o = "exit0"
                    THEN [fs EXCEPT ![CurPath(t)] = QpdfLinearized(@)]
                    ELSE IF o = "exit3"
                    THEN [fs EXCEPT ![CurPath(t)] = QpdfWithWarnings(@)]
                    ELSE fs
           /\ IF o \in {"exit0", "exit3"}
              THEN Written(CurPath(t)) ELSE UNCHANGED queue
           /\ Return(t, IF o = "exit0" THEN CleanedResult ELSE FailedResult)
    ELSE /\ Return(t, CleanedResult)
         /\ UNCHANGED << fs, tool_res, queue >>

\* lines 239-257: PDF, qpdf --linearize --replace-input file_path
CmPdf(t) ==
    IF available_tools.qpdf
    THEN \E o \in QpdfOutcomes :
           /\ Ran(t, "qpdf", o)
           /\ fs' = IF o = "exit0"
                    THEN [fs EXCEPT ![CurPath(t)] = QpdfLinearized(@)]
                    ELSE IF o = "exit3"
                    THEN [fs EXCEPT ![CurPath(t)] = QpdfWithWarnings(@)]
                    ELSE fs
           /\ IF o \in {"exit0", "exit3"}
              THEN Written(CurPath(t)) ELSE UNCHANGED queue
           /\ Return(t, IF o = "exit0" THEN CleanedResult ELSE FailedResult)
    ELSE /\ Return(t, FailedResult)
         /\ UNCHANGED << fs, tool_res, queue >>

\* lines 260-267: images, Image.open ... save(temp_file)
CmImageSave(t) ==
    /\ \E o \in PilOutcomes :
         IF o = "ok"
         THEN /\ fs' = [fs EXCEPT ![TempFile(CurPath(t))] =
                                      PilReencoded(fs[CurPath(t)])]
              /\ Written(TempFile(CurPath(t)))
              /\ pc' = [pc EXCEPT ![t] = "move_image"]
              /\ UNCHANGED << ret, sent >>
         ELSE /\ Return(t, FailedResult)
              /\ UNCHANGED << fs, queue >>
    /\ UNCHANGED tool_res

\* a plausible slip: a type with no method counts as done
CmUnsupported_CountsAsDone(t) ==
    /\ Return(t, CleanedResult)
    /\ UNCHANGED << fs, tool_res, queue >>

\* lines 275-286: office documents, media and everything else
CmUnsupported(t) ==
    /\ Return(t, UnsupportedResult)
    /\ UNCHANGED << fs, tool_res, queue >>

\* lines 236-286: the per-extension methods, reached when exiftool is not
\* available or after it failed
CmFallback(t) ==
    /\ \/ pc[t] = "fallback"
       \/ pc[t] = "clean" /\ ~available_tools.exiftool
    /\ Enter(t)
    /\ IF Extension(CurPath(t)) = ".pdf" THEN CmPdf(t)
       ELSE IF Extension(CurPath(t)) \in ImageExts THEN CmImageSave(t)
       ELSE CmUnsupported(t)
    /\ UNCHANGED << mode, temp_dir, call, inspected, available_tools, recently_processed, evt, walk_idx,
                    files_with_metadata, scans, has_meta >>

\* lines 268-273: the move after the image was saved
CmMoveImage(t) ==
    /\ pc[t] = "move_image"
    /\ \E o \in MoveOutcomes :
         /\ o = "ok" => Exists(fs[TempFile(CurPath(t))])
         /\ IF o = "ok"
            THEN /\ fs' = Move(TempFile(CurPath(t)), CurPath(t))
                 /\ Written(CurPath(t))
                 /\ Return(t, CleanedResult)
            ELSE /\ Return(t, FailedResult)
                 /\ UNCHANGED << fs, queue >>
    /\ UNCHANGED << mode, temp_dir, call, inspected, available_tools, recently_processed, evt, walk_idx,
                    files_with_metadata, scans, has_meta, metadata, orig,
                    tool_res >>

clean_metadata(t) ==
    \/ CmExiftool(t)
    \/ CmMoveExiftool(t)
    \/ CmFallback(t)
    \/ CmMoveImage(t)

\* ---------------------------------------------------------- scheduled mode
\* subprocess.run is called without timeout (lines 126-131, 218-223,
\* 243-248): when the tool does not end, the call does not return.  The main
\* thread is in has_metadata for the next file of the walk ...
HangsInInspect ==
    /\ pc[Main] = "sf_walk"
    /\ walk_idx < Len(Walk)
    /\ ~InStr(temp_folder, Walk[walk_idx + 1].root)
    /\ available_tools.exiftool
    /\ walk_idx' = walk_idx + 1
    /\ Inspected(Main, NoMeta, "none")
    /\ pc' = [pc EXCEPT ![Main] = "blocked_inspect"]
    /\ UNCHANGED << mode, temp_dir, call, inspected, queue, available_tools, fs,
                    recently_processed, evt, files_with_metadata, scans >>

\* ... or in clean_metadata, with exiftool or with qpdf
HangsInClean ==
    /\ \/ pc[Main] = "clean" /\ available_tools.exiftool
       \/ /\ pc[Main] = "fallback" \/ (pc[Main] = "clean" /\ ~available_tools.exiftool)
          /\ Extension(CurPath(Main)) = ".pdf"
          /\ available_tools.qpdf
    /\ Enter(Main)
    /\ pc' = [pc EXCEPT ![Main] = "blocked_clean"]
    /\ UNCHANGED << mode, temp_dir, call, inspected, queue, available_tools, fs,
                    recently_processed, evt, walk_idx, files_with_metadata,
                    scans, has_meta, ret, sent, tool_res >>

SubprocessHangs == HangsInInspect \/ HangsInClean

\* shutil.rmtree(self.temp_folder, ignore_errors=True)
Rmtree == [p \in AllFiles |-> IF p \in StagingPaths THEN NoFile ELSE fs[p]]

\* KeyboardInterrupt in the main thread of run_continuous.  Inside the try
\* block (lines 346-349: the loop and the scans schedule.run_pending() runs)
\* the except block sends the message and removes the staging directory;
\* in the initial scan_folder (line 341) nothing catches it.  Either way the
\* process ends, and what it held in memory is gone.
RcInterrupt ==
    /\ pc[Main] \notin {"stopped", "interrupted"}
    /\ IF pc[Main] = "rc_loop" \/ scans > 1
       THEN /\ sent' = [sent EXCEPT ![Main] = <<"stopped">>]
            /\ fs' = Rmtree
            /\ temp_dir' = FALSE
            /\ pc' = [pc EXCEPT ![Main] = "stopped"]
       ELSE /\ sent' = [sent EXCEPT ![Main] = <<>>]
            /\ pc' = [pc EXCEPT ![Main] = "interrupted"]
            /\ UNCHANGED << fs, temp_dir >>
    /\ walk_idx' = 0
    /\ files_with_metadata' = 0
    /\ has_meta' = [has_meta EXCEPT ![Main] = FALSE]
    /\ metadata' = [metadata EXCEPT ![Main] = {}]
    /\ ret' = [ret EXCEPT ![Main] = FALSE]
    /\ orig' = NoFile
    /\ tool_res' = NoTools
    /\ inspected' = NoneInspected
    /\ UNCHANGED << mode, call, queue, available_tools, recently_processed, evt, scans >>

InitSchedule == mode = "schedule" /\ InitTree(UserPaths)
NextSchedule ==
    \/ SfNext
    \/ SfReturn
    \/ RcRunPending
    \/ clean_metadata(Main)
    \/ SubprocessHangs
    \/ RcInterrupt
SpecSchedule == InitSchedule /\ [][NextSchedule]_vars

\* ------------------------------------------------------ event-driven mode
\* The events the watch layer may deliver: a file of the tree, a directory,
\* a file of the staging directory
EventDirs == {DirSub}
EventPaths == {PathA} \cup EventDirs \cup {TempFile(PathA)}
EventTypes == {"created", "modified"}

\* a plausible slip: the staging test is left out
Admits_NoStagingTest(e) ==
    /\ ~e.is_directory
    /\ e.src_path \notin recently_processed

\* on_created / on_modified up to the duplicate check (lines 395-400 and
\* 445-450), run by the thread that delivers the event
Admits(e) ==
    /\ ~(e.is_directory \/ InStr(temp_folder, e.src_path))
    /\ e.src_path \notin recently_processed

Takes(t, ty, p) ==
    LET e == [type |-> ty, src_path |-> p, is_directory |-> p \in EventDirs] IN
    /\ evt' = [evt EXCEPT ![t] = e]
    /\ pc' = [pc EXCEPT ![t] = IF Admits(e) THEN "add" ELSE "idle"]
    /\ UNCHANGED << mode, temp_dir, call, inspected, available_tools, fs, recently_processed, walk_idx,
                    files_with_metadata, scans, has_meta, metadata, ret, sent,
                    orig, tool_res >>

Deliver(t) ==
    /\ pc[t] = "idle"
    /\ \E ty \in EventTypes, p \in EventPaths : Takes(t, ty, p)
    /\ UNCHANGED queue

\* the same, for the files that are in the folder
DeliverPresent(t) ==
    /\ pc[t] = "idle"
    /\ \E ty \in EventTypes, p \in {q \in UserPaths : Exists(fs[q])} :
          Takes(t, ty, p)
    /\ UNCHANGED queue

\* The watch layer reports a change it has seen.  What the user did is a
\* created or a modified event; a write of clean_metadata is one of these
\* too, or, where the platform reports the rename of shutil.move as such, a
\* moved event, for which MetadataEventHandler has no method.
ReportedAs(c) ==
    IF c.by = "user" THEN EventTypes ELSE EventTypes \cup {"moved"}

DeliverQueued(t) ==
    /\ pc[t] = "idle"
    /\ \E c \in queue.changes, ty \in EventTypes \cup {"moved"} :
          /\ ty \in ReportedAs(c)
          /\ queue' = [queue EXCEPT !.changes = @ \ {c}]
          /\ IF ty = "moved"
             THEN UNCHANGED << mode, temp_dir, call, inspected, available_tools,
                               fs, recently_processed, pc, evt, walk_idx,
                               files_with_metadata, scans, has_meta, metadata,
                               ret, sent, orig, tool_res >>
             ELSE Takes(t, ty, c.src_path)

\* self.recently_processed.add(event.src_path) (lines 402 and 452); on_created
\* then sleeps one second
HAdd(t) ==
    /\ pc[t] = "add"
    /\ recently_processed' = recently_processed \cup {evt[t].src_path}
    /\ pc' = [pc EXCEPT ![t] = "inspect"]
    /\ UNCHANGED << mode, temp_dir, call, inspected, queue, available_tools, fs, evt, walk_idx, files_with_metadata,
                    scans, has_meta, metadata, ret, sent, orig, tool_res >>

\* a plausible slip: on_modified without its extension test
Processes_AnyExtension(e) ==
    Exists(fs[e.src_path])

\* lines 407 and 461: which events reach has_metadata
Processes(e) ==
    /\ Exists(fs[e.src_path])
    /\ e.type = "modified" => Extension(e.src_path) \in relevant_extensions

\* lines 406-426 and 454-480: has_metadata and the detection message
HInspect(t) ==
    /\ pc[t] = "inspect"
    /\ IF Processes(evt[t])
       THEN \E o \in ReadOutcomes :
              LET r == has_metadata(evt[t].src_path, o) IN
              /\ Inspected(t, r, o)
              /\ pc' = [pc EXCEPT ![t] = IF r.has THEN "clean" ELSE "cooldown"]
       ELSE /\ Inspected(t, NoMeta, "none")
            /\ pc' = [pc EXCEPT ![t] = "cooldown"]
    /\ UNCHANGED << mode, temp_dir, call, inspected, queue, available_tools, fs, recently_processed, evt, walk_idx,
                    files_with_metadata, scans >>

\* the finally block: time.sleep(4), then the membership test (lines 439-440
\* and 493-494)
Cooldown(t) ==
    /\ pc[t] = "cooldown"
    /\ pc' = [pc EXCEPT ![t] = IF evt[t].src_path \in recently_processed
                               THEN "remove" ELSE "idle"]
    /\ NoLocals(t)
    /\ UNCHANGED << mode, temp_dir, call, inspected, queue, available_tools, fs, recently_processed, evt, walk_idx,
                    files_with_metadata, scans >>

\* self.recently_processed.remove(event.src_path) (lines 441 and 495);
\* set.remove raises KeyError when the element is gone, and the exception
\* leaves the handler
HRemove(t) ==
    /\ pc[t] = "remove"
    /\ IF evt[t].src_path \in recently_processed
       THEN /\ recently_processed' = recently_processed \ {evt[t].src_path}
            /\ pc' = [pc EXCEPT ![t] = "idle"]
       ELSE /\ pc' = [pc EXCEPT ![t] = "raised"]
            /\ UNCHANGED recently_processed
    /\ UNCHANGED << mode, temp_dir, call, inspected, queue, available_tools, fs, evt, walk_idx, files_with_metadata,
                    scans, has_meta, metadata, ret, sent, orig, tool_res >>

Handler(t) ==
    \/ Deliver(t)
    \/ HAdd(t)
    \/ HInspect(t)
    \/ Cooldown(t)
    \/ HRemove(t)

\* run_watchdog: observer.start(), then the initial scan_folder in the main
\* thread while the handlers run.  The file of the tree is there or not.
Init == mode = "watchdog" /\ \E tree \in SUBSET {PathA} : InitTree(tree)
Next ==
    \/ SfNext
    \/ SfReturn
    \/ \E t \in Threads : clean_metadata(t)
    \/ \E t \in Handlers : Handler(t)
Spec == Init /\ [][Next]_vars

\* ------------------------------------------- event-driven mode, after start
\* run_watchdog is in its loop (line 372), the initial scan is over, and the
\* user has put files into the folder since: two of one name in different
\* directories, or one of a type on_modified does not look at
WatchedTrees == {{PathA, PathSA}, {PathD}}
InitWatching ==
    /\ mode = "watchdog"
    /\ \E tree \in WatchedTrees : Constructed(tree)
    /\ call = NoCall
    /\ queue = NoQueue
    /\ pc = [t \in Threads |-> IF t = Main THEN "rw_loop" ELSE "idle"]
HandlerWatching(t) ==
    \/ DeliverPresent(t)
    \/ HAdd(t)
    \/ HInspect(t)
    \/ Cooldown(t)
    \/ HRemove(t)
NextWatching == \E t \in Handlers : clean_metadata(t) \/ HandlerWatching(t)
SpecWatching == InitWatching /\ [][NextWatching]_vars

\* ------------------------------- event-driven mode, one change by the user
\* run_watchdog is in its loop; the user has created or modified one file,
\* an image or a PDF, and does nothing more.  The events are the ones the
\* watch layer reports for this change and for what clean_metadata writes.
\* The handler threads and the watch layer keep running.
ChangedByUser == {PathA, PathB}
InitRetrigger ==
    /\ mode = "watchdog"
    /\ \E p \in ChangedByUser :
          /\ Constructed({p})
          /\ queue = [on |-> TRUE, changes |-> {[src_path |-> p, by |-> "user"]}]
    /\ call = NoCall
    /\ pc = [t \in Threads |-> IF t = Main THEN "rw_loop" ELSE "idle"]
HandlerRetrigger(t) ==
    \/ DeliverQueued(t)
    \/ HAdd(t)
    \/ HInspect(t)
    \/ Cooldown(t)
    \/ HRemove(t)
NextRetrigger == \E t \in Handlers : clean_metadata(t) \/ HandlerRetrigger(t)
SpecRetrigger ==
    InitRetrigger /\ [][NextRetrigger]_vars /\ WF_vars(NextRetrigger)

\* -------------------------------------------------------------- single calls
\* One call of a function of met.py on arguments drawn from a set: what the
\* function does with every argument, whatever the run that leads to it.
program == << mode, available_tools, fs, recently_processed, pc, evt, walk_idx,
              files_with_metadata, scans, has_meta, metadata, ret, sent, orig,
              tool_res, temp_dir, inspected, queue >>

\* what exiftool -json may print for a file: any set of these fields
ReportedTags == ExifToolBasicTags \cup EmbeddedTags
HasMetadataCalls ==
    {[fn |-> "has_metadata", arg |-> r, res |-> <<>>, done |-> FALSE] :
        r \in SUBSET ReportedTags}

\* has_metadata with exiftool available (lines 157-162), exiftool -json
\* having printed call.arg
CallHasMetadata ==
    /\ call.fn = "has_metadata" /\ ~call.done
    /\ available_tools.exiftool
    /\ call' = [call EXCEPT !.res = FilterBasic(call.arg), !.done = TRUE]
    /\ UNCHANGED program

\* the probe, the two version queries ending as call.arg says
CheckToolsCalls ==
    {[fn |-> "_check_required_tools", arg |-> outs, res |-> <<>>, done |-> FALSE] :
        outs \in [exiftool : ProbeOutcomes, qpdf : ProbeOutcomes]}

CallCheckTools ==
    /\ call.fn = "_check_required_tools" /\ ~call.done
    /\ call' = [call EXCEPT !.res = check_required_tools(call.arg), !.done = TRUE]
    /\ UNCHANGED program

\* The detection message (lines 309-319, 414-424, 468-478).  A text is the
\* sequence of its characters.
TruncateAt == 500
Marker == << ".", ".", ".", " ", "[", "t", "r", "u", "n", "c", "a", "d", "o", "]" >>
Digits == << "0", "1", "2", "3", "4", "5", "6", "7", "8", "9" >>
\* a serialized snapshot of n characters
Text(n) == [i \in 1..n |-> Digits[(i % 10) + 1]]
Sites == {"scan_folder", "on_created", "on_modified"}
Header(site) ==
    IF site = "scan_folder" THEN "Archivo con metadatos detectado:"
    ELSE IF site = "on_created" THEN "Nuevo archivo con metadatos:"
    ELSE "Archivo modificado con metadatos:"

\* a plausible slip: a text of exactly 500 characters is cut too
Truncated_FromLimit(metadata_str) ==
    IF Len(metadata_str) >= TruncateAt
    THEN SubSeq(metadata_str, 1, TruncateAt) \o Marker
    ELSE metadata_str

\* if len(metadata_str) > 500: metadata_str = metadata_str[:500] + "... [truncado]"
Truncated(metadata_str) ==
    IF Len(metadata_str) > TruncateAt
    THEN SubSeq(metadata_str, 1, TruncateAt) \o Marker
    ELSE metadata_str

DetectionMessage(site, metadata_str) ==
    [header |-> Header(site), body |-> Truncated(metadata_str)]

DetectionMessageCalls ==
    {[fn |-> "detection_message", arg |-> [site |-> site, text |-> Text(n)],
      res |-> <<>>, done |-> FALSE] : site \in Sites, n \in 0..MaxTextLen}

CallDetectionMessage ==
    /\ call.fn = "detection_message" /\ ~call.done
    /\ call' = [call EXCEPT !.res = DetectionMessage(call.arg.site, call.arg.text),
                            !.done = TRUE]
    /\ UNCHANGED program

Calls == HasMetadataCalls \cup CheckToolsCalls \cup DetectionMessageCalls
InitCalls ==
    /\ mode = "schedule"
    /\ Constructed({})
    /\ available_tools = [exiftool |-> TRUE, qpdf |-> TRUE]
    /\ pc = [t \in Threads |-> "idle"]
    /\ queue = NoQueue
    /\ call \in Calls
NextCalls == CallHasMetadata \/ CallCheckTools \/ CallDetectionMessage
SpecCalls == InitCalls /\ [][NextCalls]_vars

\* ================================================================ properties
\* a thread is inside clean_metadata
InCall(t) ==
    pc[t] \in {"clean", "move_exiftool", "fallback", "move_image", "blocked_clean"}
\* clean_metadata returned to thread t and the outcome message is out
Returned(t) == has_meta[t] /\ ~InCall(t)
\* a handler is past the duplicate check and the add, and not yet through
\* its finally block: its event was dispatched
Dispatched(t) ==
    pc[t] \in {"inspect", "clean", "move_exiftool", "fallback", "move_image",
               "cooldown", "remove"}

\* C1: of the events for one path that arrive while an earlier one is still
\* being handled, one only is dispatched to has_metadata/clean_metadata: no
\* two handler threads are past the duplicate check for the same path at the
\* same time.
C1_OneDispatchPerWindow ==
    \A t1, t2 \in Handlers :
        (Dispatched(t1) /\ Dispatched(t2) /\ evt[t1].src_path = evt[t2].src_path)
            => t1 = t2

\* C2: in event-driven mode at most one run of the per-file pipeline
\* (has_metadata, message, clean_metadata, message) is in flight for a path,
\* whether on_created, on_modified or the initial scan_folder started it.
C2_OnePipelinePerFile ==
    \A t1, t2 \in Threads :
        (InCall(t1) /\ InCall(t2) /\ CurPath(t1) = CurPath(t2)) => t1 = t2

\* C3: when clean_metadata returns anything but True, the file has the
\* content it had when clean_metadata was called.
C3_FailureLeavesOriginal ==
    (Returned(Main) /\ ret[Main] # CleanedResult) => fs[CurPath(Main)] = orig

\* C4: the content of a file of the tree changes only by the move of the
\* staged copy, completely written, onto it.
C4_ReplacedOnlyByMove ==
    [][\A p \in UserPaths :
          fs'[p] # fs[p] =>
              /\ pc[Main] \in {"move_exiftool", "move_image"}
              /\ p = CurPath(Main)
              /\ Exists(fs[TempFile(p)])
              /\ fs'[p] = fs[TempFile(p)]]_vars

\* C5: an event for a path under the staging directory, created or modified,
\* is never dispatched (no has_metadata, no clean_metadata, no message) and
\* no staging path ever enters recently_processed.
C5_StagingNeverAdmitted ==
    /\ \A t \in Handlers :
          UnderStaging(evt[t].src_path) =>
              pc[t] = "idle" /\ ~has_meta[t] /\ sent[t] = <<>>
    /\ \A p \in recently_processed : ~UnderStaging(p)

\* C5 witness: staging events of both types were delivered
C5_StagingEventsDelivered ==
    \E t1, t2 \in Handlers :
        /\ evt[t1].type = "created" /\ UnderStaging(evt[t1].src_path)
        /\ evt[t2].type = "modified" /\ UnderStaging(evt[t2].src_path)
        /\ ~evt[t1].is_directory /\ ~evt[t2].is_directory

\* the contents clean_metadata leaves behind when it returns True
CleanedContent(c) == c.ver \in {"exiftool", "qpdf", "pil"}

\* C6: a file whose content is what a clean_metadata that returned True
\* left is found without metadata by the next has_metadata: the scan never
\* detects such a file.
C6_CleanedIsNotDetected ==
    (pc[Main] = "clean" /\ has_meta[Main]) => ~CleanedContent(fs[CurPath(Main)])

\* C7: for a PDF, when exiftool is there and fails (nonzero exit or
\* exception) and qpdf is there, clean_metadata does not return before qpdf
\* has run, and returns True when qpdf exits 0.
C7_FallbackChain ==
    (/\ Returned(Main)
     /\ Extension(CurPath(Main)) = ".pdf"
     /\ tool_res.exiftool \in {"nonzero", "exception"}
     /\ available_tools.qpdf)
        => /\ tool_res.qpdf # "none"
           /\ tool_res.qpdf = "exit0" => ret[Main] = CleanedResult

\* C7 witness: exiftool raised, qpdf exited 0, clean_metadata returned True
C7_FellBackToQpdf ==
    /\ Returned(Main)
    /\ Extension(CurPath(Main)) = ".pdf"
    /\ tool_res.exiftool = "exception" /\ tool_res.qpdf = "exit0"
    /\ ret[Main] = CleanedResult

\* clean_metadata returned for a .pdf with neither tool available
PdfNoTools ==
    /\ Returned(Main)
    /\ Extension(CurPath(Main)) = ".pdf"
    /\ ~available_tools.exiftool /\ ~available_tools.qpdf

DocxNoExiftool ==
    /\ has_meta[Main]
    /\ Extension(CurPath(Main)) = ".docx"
    /\ ~available_tools.exiftool

C10_OneMessageEach ==
    \A t \in Threads :
        /\ ~has_meta[t] => sent[t] = <<>>
        /\ (has_meta[t] /\ InCall(t)) => sent[t] = <<"detected">>
        /\ Returned(t) =>
               sent[t] = <<"detected", IF ret[t] THEN "cleaned" ELSE "failed">>

\* C10 witness: the scan had an exception in clean_metadata and sent its two
\* messages; a created and a modified event were handled to the end, one
\* cleaned and one failed
C10_AllThreePathsReported ==
    /\ Returned(Main)
    /\ tool_res.exiftool = "exception"
    /\ sent[Main] = <<"detected", "failed">>
    /\ \E t1, t2 \in Handlers :
          /\ evt[t1].type = "created" /\ Returned(t1)
          /\ sent[t1] = <<"detected", "cleaned">>
          /\ evt[t2].type = "modified" /\ Returned(t2)
          /\ sent[t2] = <<"detected", "failed">>

\* C11: a file that fails does not stop its caller: after clean_metadata
\* returned False the scan is back in its walk and a handler is on its way
\* to its finally block; scan_folder returns only when every entry of the
\* walk was taken, and what it counted is at most the entries it took.
C11_FailureIsIsolated ==
    /\ (Returned(Main) /\ ret[Main] # CleanedResult) => pc[Main] = "sf_walk"
    /\ \A t \in Handlers :
          (Returned(t) /\ ret[t] # CleanedResult) => pc[t] = "cooldown"
    /\ pc[Main] \in {"rc_loop", "rw_loop"} =>
          walk_idx = Len(Walk) /\ files_with_metadata <= walk_idx

\* C11 witness: scan_folder has returned; it had counted the file, whose
\* redaction failed (the file has the content it had); a handler's
\* redaction has failed too
C11_ScanReturnedAfterFailure ==
    /\ pc[Main] = "rw_loop"
    /\ files_with_metadata = 1
    /\ fs[PathA] = Original(PathA)
    /\ \E t \in Handlers : Returned(t) /\ ret[t] # CleanedResult

\* C12: redactions of different files do not meet in the staging directory:
\* no file of the folder ever holds the content of another file.
C12_NoForeignContent ==
    \A p \in UserPaths : Exists(fs[p]) => fs[p].of = p

\* C13: with exiftool available, has_metadata returns False and an empty
\* snapshot for every report that is empty or holds excluded fields only,
\* and no excluded field is in a snapshot it returns.
C13_ExcludedFieldsDoNotCount ==
    (call.fn = "has_metadata" /\ call.done) =>
        /\ call.arg \subseteq ExcludedTags =>
               ~call.res.has /\ call.res.meta = {}
        /\ call.res.meta \cap ExcludedTags = {}

\* C13 witness: a report of excluded fields only was answered
C13_OnlyExcludedReported ==
    /\ call.fn = "has_metadata" /\ call.done
    /\ call.arg = {"FileSize", "FileName", "MIMEType", "ExifToolVersion"}

\* C14: with exiftool available, when exiftool -json exits nonzero or the
\* call or the parsing of its output raises, has_metadata returns False
\* with an empty snapshot: no message is sent and clean_metadata is not
\* called for the file.
C14_InspectorFailsOpen ==
    (available_tools.exiftool /\ tool_res.read \in {"nonzero", "exception"}) =>
        /\ ~has_meta[Main] /\ metadata[Main] = {}
        /\ sent[Main] = <<>>
        /\ pc[Main] = "sf_walk"
        /\ tool_res.exiftool = "none" /\ tool_res.qpdf = "none"

\* C14 witness: the call raised for a file that has embedded fields
C14_ReadFailedOnTaggedFile ==
    /\ available_tools.exiftool
    /\ tool_res.read = "exception"
    /\ fs[CurPath(Main)].tags # {}

\* C15: a call of an external tool ends, by itself or by a timeout: the
\* thread is never left waiting for a tool that does not return.
C15_ToolCallsReturn ==
    pc[Main] \notin {"blocked_inspect", "blocked_clean"}

C17_ShutdownCleansUp ==
    pc[Main] \in {"stopped", "interrupted"} =>
        /\ sent[Main] = <<"stopped">>
        /\ ~temp_dir
        /\ \A p \in StagingPaths : ~Exists(fs[p])

\* C18: the probe does not raise, and it records a tool as installed exactly
\* when its version query ran and exited 0: not when the binary is missing,
\* not when the query exits nonzero or fails in another way.
C18_ProbeRecordsSuccessOnly ==
    (call.fn = "_check_required_tools" /\ call.done) =>
        /\ ~call.res.raised
        /\ \A tool \in {"exiftool", "qpdf"} :
              call.res.tools[tool] <=> call.arg[tool] = "exit0"

\* C19: in scan_folder, on_created and on_modified alike, a serialized
\* snapshot longer than 500 characters goes into the detection message as
\* its first 500 characters followed by the marker, and one of 500
\* characters or fewer goes in as it is.
C19_TruncatedAt500 ==
    (call.fn = "detection_message" /\ call.done) =>
        LET text == call.arg.text
            body == call.res.body
        IN  IF Len(text) > TruncateAt
            THEN /\ Len(body) = TruncateAt + Len(Marker)
                 /\ \A i \in 1..TruncateAt : body[i] = text[i]
                 /\ \A i \in 1..Len(Marker) : body[TruncateAt + i] = Marker[i]
            ELSE body = text

\* C19 witness: a text of 501 characters went into on_modified's message
C19_OneCharacterTooLong ==
    /\ call.fn = "detection_message" /\ call.done
    /\ call.arg.site = "on_modified"
    /\ Len(call.arg.text) = TruncateAt + 1

\* C20: a handler that added a path to recently_processed takes it out
\* again after its sleep, whatever other handlers do with the same path:
\* no handler ends with an exception in its finally block.
C20_RemoveNeverRaises ==
    \A t \in Handlers : pc[t] # "raised"

\* how often has_metadata was called for path p in this scan
TimesInspected(p) ==
    Cardinality({i \in 1..Len(inspected.paths) : inspected.paths[i] = p})

\* C21: scan_folder does not call has_metadata for a file under the staging
\* directory and calls clean_metadata only for the file has_metadata has
\* just returned True for; when it returns, has_metadata was called once
\* for every file of the folder that is not under the staging directory,
\* and the number returned is the number of calls that returned True.
C21_FullScanCounts ==
    /\ \A i \in 1..Len(inspected.paths) : ~UnderStaging(inspected.paths[i])
    /\ InCall(Main) =>
          /\ has_meta[Main]
          /\ inspected.paths # <<>>
          /\ inspected.paths[Len(inspected.paths)] = CurPath(Main)
    /\ pc[Main] \in {"rc_loop", "rw_loop"} =>
          /\ \A p \in UserPaths :
                (Exists(fs[p]) /\ ~UnderStaging(p)) => TimesInspected(p) = 1
          /\ files_with_metadata = inspected.returned_true

\* the watch layer has nothing to report and no handler is running
Quiescent ==
    /\ queue.changes = {}
    /\ \A t \in Handlers : pc[t] = "idle"

\* C22: after one change by the user, no event the watch layer reports for
\* a write of clean_metadata is admitted by a handler (so it leads to no
\* has_metadata and no clean_metadata), and in the end the watch layer has
\* nothing to report and the handlers are idle for good.
C22_OwnWritesDoNotRetrigger ==
    /\ [][\A c \in queue.changes :
            (c.by = "redactor" /\ c \notin queue'.changes) =>
                \A t \in Handlers : pc'[t] = "add" => pc[t] = "add"]_vars
    /\ <>[]Quiescent

\* handler t is at work on a modified event that does not reach
\* has_metadata: the extension is not in relevant_extensions or the file is
\* not there
HandlesUnprocessedModify(t) ==
    /\ pc[t] \in {"add", "inspect", "cooldown", "remove"}
    /\ evt[t].type = "modified"
    /\ ~Processes(evt[t])

\* C23: no step of a handler that is at work on such a modified event
\* changes recently_processed, and a created or modified event for the same
\* path that another handler takes meanwhile is admitted.
C23_UnprocessedModifyLeavesPending ==
    [][\A t \in Handlers :
          HandlesUnprocessedModify(t) =>
              /\ pc'[t] # pc[t] => recently_processed' = recently_processed
              /\ \A u \in Handlers \ {t} :
                    (/\ pc[u] = "idle"
                     /\ evt'[u] # evt[u] \/ pc'[u] # pc[u]
                     /\ evt'[u].src_path = evt[t].src_path)
                        => pc'[u] = "add"]_vars

====
